---- MODULE Spec2Model ----
(***************************************************************************)
(* The cleanup-scope manager of librustc_trans (cleanup.rs): the stack of  *)
(* cleanup scopes of one FunctionContext, the cleanups scheduled into it,  *)
(* and the blocks generated for normal exit and for unwinding.             *)
(*                                                                         *)
(* A basic block handle (BasicBlockRef) is the index of the block in the   *)
(* sequence `blocks`; a ValueRef naming a cleanuppad is the handle of the  *)
(* block that holds the cleanuppad instruction.                            *)
(***************************************************************************)
EXTENDS Integers, Sequences, FiniteSets, TLC

\* ---------------------------------------------------------------- bounds
MaxScopes == 2      \* scopes pushed in one run
MaxVals == 3        \* values handed to schedule_drop_* in one run
MaxBlocks == 4      \* build_new_block calls in one run
MaxAdt == 1         \* values handed to schedule_drop_adt_contents in one run
MaxPad == 2         \* pad values of the labels compared and looked up with

\* ---------------------------------------------------------------- state
VARIABLES
    scopes,             \* FunctionContext.scopes: RefCell<Vec<CleanupScope>>
    blocks,             \* the basic blocks built so far (handle = index)
    landingpad_alloca,  \* FunctionContext.landingpad_alloca: Cell<Option<ValueRef>>
    msvc,               \* base::wants_msvc_seh(sess)
    status,             \* "ok", or "abort" once a panic has ended compilation
    issued,             \* the CustomScopeIndex values handed out by push
    closed,             \* of these, the indexes of scopes that have been popped
    npush,              \* scopes pushed so far
    nvals,              \* values scheduled so far (the next ValueRef is nvals+1)
    nadt,               \* of these, by schedule_drop_adt_contents
    last,               \* the last call: operation, arguments, outcome
    chain1              \* the last completed exit-chain computation and what
                        \* has been done to the stack since

vars == <<scopes, blocks, landingpad_alloca, msvc,
          status, issued, closed, npush, nvals, nadt, last, chain1>>

\* Option::None for block handles and ValueRefs (handles start at 1)
None == 0

\* ------------------------------------------------------- sequence helpers
Reverse(s) == [i \in 1..Len(s) |-> s[Len(s) + 1 - i]]

\* Iterator::take(n)
Take(s, n) == SubSeq(s, 1, IF n < Len(s) THEN n ELSE Len(s))

MaxOf(S) == CHOOSE m \in S : \A x \in S : x <= m

\* ------------------------------------------------------------ UnwindKind
LandingPad == [tag |-> "LandingPad", pad |-> None]
CleanupPad(p) == [tag |-> "CleanupPad", pad |-> p]

\* (mutant) the derived equality: the payload is compared too
UnwindKind_eq_payload(a, b) == a = b

\* impl PartialEq for UnwindKind: the tag decides, the payload is ignored
UnwindKind_eq(a, b) == a.tag = b.tag

\* (mutant) the terminator is emitted without its successor
UnwindKind_branch_noSuccessor(label, to_llbb) ==
    IF label.tag = "CleanupPad"
    THEN [op |-> "cleanup_ret", pad |-> label.pad, to |-> None]
    ELSE [op |-> "br", pad |-> None, to |-> None]

\* UnwindKind::branch: the terminator put at the end of from_bcx
UnwindKind_branch(label, to_llbb) ==
    IF label.tag = "CleanupPad"
    THEN [op |-> "cleanup_ret", pad |-> label.pad, to |-> to_llbb]
    ELSE [op |-> "br", pad |-> None, to |-> to_llbb]

\* UnwindKind::start on the block with handle b: the label of that block
UnwindKind_start(label, b) ==
    IF label.tag = "CleanupPad" THEN CleanupPad(b) ELSE label

\* the funclet UnwindKind::start sets on the block
FuncletOf(label) == IF label.tag = "CleanupPad" THEN "msvc" ELSE "gnu"

\* ---------------------------------------------------------- CleanupScope
\* CleanupScope::new
CleanupScope_new ==
    [cleanups |-> <<>>, cached_early_exits |-> <<>>, cached_landing_pad |-> None]

\* (mutant) the lookup without .rev(): the oldest entry for the label
cached_early_exit_oldest(scope, label) ==
    LET ce == scope.cached_early_exits
        hits == {i \in 1..Len(ce) : ce[i].label.tag = label.tag}
        first == CHOOSE m \in hits : \A x \in hits : m <= x
    IN IF hits = {}
       THEN [found |-> FALSE, cleanup_block |-> None, last_cleanup |-> 0]
       ELSE [found |-> TRUE,
             cleanup_block |-> ce[first].cleanup_block,
             last_cleanup |-> ce[first].last_cleanup]

\* CleanupScope::cached_early_exit: the newest entry whose label equals `label`
cached_early_exit(scope, label) ==
    LET ce == scope.cached_early_exits
        hits == {i \in 1..Len(ce) : UnwindKind_eq(ce[i].label, label)}
    IN IF hits = {}
       THEN [found |-> FALSE, cleanup_block |-> None, last_cleanup |-> 0]
       ELSE [found |-> TRUE,
             cleanup_block |-> ce[MaxOf(hits)].cleanup_block,
             last_cleanup |-> ce[MaxOf(hits)].last_cleanup]

\* (mutant) the consumed count is recorded one too high
add_cached_early_exit_offByOne(scope, label, blk, last_cleanup) ==
    [scope EXCEPT !.cached_early_exits =
        Append(@, [label |-> label, cleanup_block |-> blk,
                   last_cleanup |-> last_cleanup + 1])]

\* (mutant) the new entry is put in front of the older ones
add_cached_early_exit_front(scope, label, blk, last_cleanup) ==
    [scope EXCEPT !.cached_early_exits =
        <<[label |-> label, cleanup_block |-> blk,
           last_cleanup |-> last_cleanup]>> \o @]

\* CleanupScope::add_cached_early_exit
add_cached_early_exit(scope, label, blk, last_cleanup) ==
    [scope EXCEPT !.cached_early_exits =
        Append(@, [label |-> label, cleanup_block |-> blk,
                   last_cleanup |-> last_cleanup])]

\* (mutant) every scope is taken to need unwinding action
CleanupScope_needs_invoke_always(scope) == TRUE

\* CleanupScope::needs_invoke
CleanupScope_needs_invoke(scope) ==
    scope.cached_landing_pad # None \/ scope.cleanups # <<>>

\* FunctionContext::needs_invoke
needs_invoke(stack) ==
    \E i \in 1..Len(stack) : CleanupScope_needs_invoke(stack[i])

\* FunctionContext::is_valid_custom_scope
is_valid_custom_scope(stack, index) == index < Len(stack)

\* FunctionContext::push_scope / pop_scope on the Vec
push_scope(stack, scope) == Append(stack, scope)
pop_scope(stack) == SubSeq(stack, 1, Len(stack) - 1)
top_of(stack) == stack[Len(stack)]


\* --------------------------------------------------------- generated code
\* DropValue scheduled for `val`
DropValue(val, skip_dtor) == [val |-> val, skip_dtor |-> skip_dtor]

\* a basic block as build_new_block and the builder calls leave it
Block(name, pad, funclet, drops, load, store, term) ==
    [name |-> name, pad |-> pad, funclet |-> funclet, drops |-> drops,
     load |-> load, store |-> store, term |-> term]

NoTerm == [op |-> "none", pad |-> None, to |-> None]

\* RefCell<Vec<CleanupScope>>: a borrow()/borrow_mut() succeeds only while no
\* RefMut of the cell is alive (`held` is "none" or "mut")
CanBorrow(held) == held = "none"

\* (mutant) the cleanups are walked without .rev()
CleanupsToEmit_forward(scope, skip) ==
    LET len == Len(scope.cleanups)
    IN Take(scope.cleanups, IF skip <= len THEN len - skip ELSE len)

\* (mutant) the consumed count is ignored: every cleanup is emitted again
CleanupsToEmit_noSkip(scope, skip) == Reverse(scope.cleanups)

\* the cleanups one generated block runs: scope.cleanups.iter().rev().take(len - skip)
\* (len - skip on usize: a wrapped difference takes every element)
CleanupsToEmit(scope, skip) ==
    LET len == Len(scope.cleanups)
    IN Take(Reverse(scope.cleanups), IF skip <= len THEN len - skip ELSE len)

\* cleanup.rs 401-445: pop scopes onto popped_scopes until the stack is empty
\* or the popped scope has a cached early exit for the label
RECURSIVE WalkToExit(_, _, _)
WalkToExit(stack, popped, label) ==
    IF Len(stack) = 0
    THEN [stack |-> stack, popped |-> popped, hit |-> FALSE,
          exit |-> None, skip |-> 0]
    ELSE LET top_scope == top_of(stack)
             cached_exit == cached_early_exit(top_scope, label)
         IN IF cached_exit.found
            THEN [stack |-> pop_scope(stack), popped |-> Append(popped, top_scope),
                  hit |-> TRUE, exit |-> cached_exit.cleanup_block,
                  skip |-> cached_exit.last_cleanup]
            ELSE WalkToExit(pop_scope(stack), Append(popped, top_scope), label)

\* (mutant) the terminal block is left without its resume / cleanup_ret
ResumeBlock_unterminated(label, alloca, b) ==
    Block("resume", IF label.tag = "CleanupPad" THEN b ELSE None, "none", <<>>,
          IF label.tag = "CleanupPad" THEN None ELSE alloca, None,
          [op |-> "none", pad |-> None, to |-> None])

\* cleanup.rs 402-428: the block that resumes unwinding in the caller; "resume"
\* stands for the resume instruction or, on targets with custom_unwind_resume,
\* the call of eh_unwind_resume: both end the chain with the loaded record
ResumeBlock(label, alloca, b) ==
    IF label.tag = "LandingPad"
    THEN Block("resume", None, "none", <<>>, alloca, None,
               [op |-> "resume", pad |-> None, to |-> None])
    ELSE Block("resume", b, "none", <<>>, None, None,
               [op |-> "cleanup_ret", pad |-> b, to |-> None])

\* (mutant) the block is ended with the label passed in, not the block's own
CleanBlock_callerLabel(scope, label, skip, prev_llbb, b) ==
    Block("clean", UnwindKind_start(label, b).pad, FuncletOf(label),
          CleanupsToEmit(scope, skip), None, None,
          UnwindKind_branch(label, prev_llbb))

\* cleanup.rs 471-488: the block generated for one replayed scope
CleanBlock(scope, label, skip, prev_llbb, b) ==
    LET exit_label == UnwindKind_start(label, b)
    IN Block("clean", exit_label.pad, FuncletOf(label),
             CleanupsToEmit(scope, skip), None, None,
             UnwindKind_branch(exit_label, prev_llbb))

\* (mutant) a block is generated for every replayed scope
NeedsBlock_always(scope) == TRUE

\* cleanup.rs 471: a block is generated for a scope that has cleanups
NeedsBlock(scope) == scope.cleanups # <<>>

\* (mutant) the scope is pushed back only inside the `if` that generates its block
RestoreScope_onlyGenerated(stack, scope) ==
    IF scope.cleanups # <<>> THEN push_scope(stack, scope) ELSE stack

\* (mutant) the scope is put back underneath the scopes already restored
RestoreScope_underneath(stack, scope) == <<scope>> \o stack

\* cleanup.rs 489: self.push_scope(scope), whether or not a block was generated
RestoreScope(stack, scope) == push_scope(stack, scope)

\* cleanup.rs 470-490: pop popped_scopes, generate, push the scope back
RECURSIVE ReplayScopes(_, _, _, _, _, _)
ReplayScopes(stack, popped, blks, prev_llbb, skip, label) ==
    IF popped = <<>>
    THEN [scopes |-> stack, blocks |-> blks, prev_llbb |-> prev_llbb]
    ELSE LET scope == popped[Len(popped)]
             rest == SubSeq(popped, 1, Len(popped) - 1)
             b == Len(blks) + 1
         IN IF NeedsBlock(scope)
            THEN ReplayScopes(
                    RestoreScope(stack,
                        add_cached_early_exit(scope, UnwindKind_start(label, b),
                                              b, Len(scope.cleanups))),
                    rest,
                    Append(blks, CleanBlock(scope, label, skip, prev_llbb, b)),
                    b, 0, label)
            ELSE ReplayScopes(RestoreScope(stack, scope), rest, blks,
                              prev_llbb, skip, label)

\* the outcome of a call: the state it leaves and what it returned
Outcome(sc, blks, alloca, ok, why, ret) ==
    [scopes |-> sc, blocks |-> blks, alloca |-> alloca,
     ok |-> ok, why |-> why, ret |-> ret]

\* FunctionContext::trans_cleanups_to_exit_scope(label), entered while the
\* caller holds `held` on self.scopes
trans_cleanups_to_exit_scope(label, held, sc, blks, alloca) ==
    IF ~CanBorrow(held)
    THEN \* line 388: self.scopes_len() borrows the cell
         Outcome(sc, blks, alloca, FALSE, "already mutably borrowed", None)
    ELSE
    LET w == WalkToExit(sc, <<>>, label)
        r == Len(blks) + 1
    IN IF ~w.hit /\ label.tag = "LandingPad" /\ alloca = None
       THEN \* line 408: landingpad_alloca.get().unwrap()
            Outcome(w.stack,
                    Append(blks, Block("resume", None, "none", <<>>, None, None, NoTerm)),
                    alloca, FALSE, "unwrap on None", None)
       ELSE LET blks1 == IF w.hit THEN blks
                         ELSE Append(blks, ResumeBlock(label, alloca, r))
                prev0 == IF w.hit THEN w.exit ELSE r
                out == ReplayScopes(w.stack, w.popped, blks1, prev0, w.skip, label)
            IN IF Len(out.scopes) # Len(sc)
               THEN \* line 494: assert_eq!(self.scopes_len(), orig_scopes_len)
                    Outcome(out.scopes, out.blocks, alloca, FALSE,
                            "assert_eq scopes_len", None)
               ELSE Outcome(out.scopes, out.blocks, alloca, TRUE, "", out.prev_llbb)


\* ------------------------------------------------------- get_landing_pad
\* the scratch local base::alloca returns for the exception record
AllocaAddr == 1

\* cleanup.rs 271: `let mut scopes = self.scopes.borrow_mut();` -- the RefMut is
\* a local of the function body and stays alive until get_landing_pad returns
OwnerBorrow == "mut"

\* cleanup.rs 257-261: pop the scopes that do not need invoke
RECURSIVE PopNoInvoke(_, _)
PopNoInvoke(stack, popped) ==
    IF Len(stack) = 0
    THEN [ok |-> FALSE, stack |-> stack, popped |-> popped]   \* top_scope: unwrap
    ELSE IF CleanupScope_needs_invoke(top_of(stack))
         THEN [ok |-> TRUE, stack |-> stack, popped |-> popped]
         ELSE PopNoInvoke(pop_scope(stack), Append(popped, top_of(stack)))

\* cleanup.rs 325-330: push the removed scopes back, last removed first
RECURSIVE PushPopped(_, _, _)
PushPopped(stack, popped, held) ==
    IF popped = <<>>
    THEN [ok |-> TRUE, stack |-> stack]
    ELSE IF ~CanBorrow(held)
         THEN [ok |-> FALSE, stack |-> stack]     \* push_scope: borrow_mut
         ELSE PushPopped(push_scope(stack, popped[Len(popped)]),
                         SubSeq(popped, 1, Len(popped) - 1), held)

\* (mutant) each landing pad allocates and stores into a local of its own
PadBlock_ownLocal(ms, alloca1, b) ==
    IF ms
    THEN Block("unwind", b, "none", <<>>, None, None, NoTerm)
    ELSE Block("unwind", None, "none", <<>>, None, AllocaAddr + b, NoTerm)

\* cleanup.rs 276-316: the landing pad block before its branch is emitted
PadBlock(ms, alloca1, b) ==
    IF ms
    THEN Block("unwind", b, "none", <<>>, None, None, NoTerm)
    ELSE Block("unwind", None, "none", <<>>, None, alloca1, NoTerm)

\* cleanup.rs 324-334: restore, check the depth, return llbb
FinishLandingPad(stack, popped, blks, alloca, held, orig_scopes_len, llbb) ==
    LET back == PushPopped(stack, popped, held)
    IN IF ~back.ok
       THEN Outcome(back.stack, blks, alloca, FALSE, "already borrowed", None)
       ELSE IF ~CanBorrow(held)
       THEN \* line 332: self.scopes_len() borrows the cell
            Outcome(back.stack, blks, alloca, FALSE, "already mutably borrowed", None)
       ELSE IF Len(back.stack) # orig_scopes_len
       THEN Outcome(back.stack, blks, alloca, FALSE, "assert_eq scopes_len", None)
       ELSE Outcome(back.stack, blks, alloca, TRUE, "", llbb)

\* FunctionContext::get_landing_pad
get_landing_pad(sc, blks, alloca, ms) ==
    IF Len(sc) = 0
    THEN Outcome(sc, blks, alloca, FALSE, "assert orig_scopes_len > 0", None)
    ELSE
    LET p == PopNoInvoke(sc, <<>>)
        held == OwnerBorrow
    IN IF ~p.ok
       THEN Outcome(p.stack, blks, alloca, FALSE, "unwrap on None", None)
       ELSE
       LET last_scope == top_of(p.stack)
       IN IF last_scope.cached_landing_pad # None
          THEN FinishLandingPad(p.stack, p.popped, blks, alloca, held,
                                Len(sc), last_scope.cached_landing_pad)
          ELSE
          LET b == Len(blks) + 1
              stack1 == [p.stack EXCEPT ![Len(p.stack)].cached_landing_pad = b]
              alloca1 == IF ms THEN alloca
                         ELSE IF alloca = None THEN AllocaAddr ELSE alloca
              val == IF ms THEN CleanupPad(b) ELSE LandingPad
              blks1 == Append(blks, PadBlock(ms, alloca1, b))
              t == trans_cleanups_to_exit_scope(val, held, stack1, blks1, alloca1)
          IN IF ~t.ok
             THEN Outcome(t.scopes, t.blocks, t.alloca, FALSE, t.why, None)
             ELSE FinishLandingPad(
                      t.scopes, p.popped,
                      [t.blocks EXCEPT ![b].term = UnwindKind_branch(val, t.ret)],
                      t.alloca, held, Len(sc), b)

\* ------------------------------------------------------------ bookkeeping
\* what the last call was and how it ended; `pre`/`nblk` are the stack and the
\* number of blocks when it was entered, `first` the exit chain before it
Call(op, ok, why, arg, ret, emitted, label) ==
    [op |-> op, ok |-> ok, why |-> why, arg |-> arg, ret |-> ret,
     emitted |-> emitted, label |-> label,
     pre |-> scopes, nblk |-> Len(blocks), first |-> chain1]

NoChain == [valid |-> FALSE, label |-> LandingPad, ret |-> None,
            since |-> "none", idx |-> 0]

\* one more event on the stack since the last completed exit chain
Since(kind, idx) ==
    IF ~chain1.valid THEN chain1
    ELSE IF kind = "sched" /\ chain1.since = "none"
         THEN [chain1 EXCEPT !.since = "sched", !.idx = idx]
         ELSE [chain1 EXCEPT !.since = "other", !.idx = 0]

\* a FunctionContext as constructed: no scope, no block, no scratch local
Init ==
    /\ msvc \in BOOLEAN
    /\ scopes = <<>>
    /\ blocks = <<>>
    /\ landingpad_alloca = None
    /\ status = "ok"
    /\ issued = {}
    /\ closed = {}
    /\ npush = 0
    /\ nvals = 0
    /\ nadt = 0
    /\ chain1 = NoChain
    /\ last = [op |-> "init", ok |-> TRUE, why |-> "", arg |-> 0, ret |-> None,
               emitted |-> <<>>, label |-> LandingPad,
               pre |-> <<>>, nblk |-> 0, first |-> NoChain]

\* the state in which get_landing_pad (lines 305-319) hands over to
\* trans_cleanups_to_exit_scope: under the table protocol the scratch local exists
InitExit ==
    /\ msvc \in BOOLEAN
    /\ scopes = <<>>
    /\ blocks = <<>>
    /\ landingpad_alloca = (IF msvc THEN None ELSE AllocaAddr)
    /\ status = "ok"
    /\ issued = {}
    /\ closed = {}
    /\ npush = 0
    /\ nvals = 0
    /\ nadt = 0
    /\ chain1 = NoChain
    /\ last = [op |-> "init", ok |-> TRUE, why |-> "", arg |-> 0, ret |-> None,
               emitted |-> <<>>, label |-> LandingPad,
               pre |-> <<>>, nblk |-> 0, first |-> NoChain]

Config == UNCHANGED msvc

\* a panic: the call does not return and compilation ends
Abort(op, why, arg) ==
    /\ status' = "abort"
    /\ last' = Call(op, FALSE, why, arg, None, <<>>, LandingPad)

\* --------------------------------------------------------------- actions
\* push_custom_cleanup_scope
PushCustomCleanupScope ==
    /\ status = "ok"
    /\ npush < MaxScopes
    /\ LET index == Len(scopes)
       IN /\ scopes' = push_scope(scopes, CleanupScope_new)
          /\ issued' = issued \cup {index}
          /\ npush' = npush + 1
          /\ last' = Call("push", TRUE, "", index, None, <<>>, LandingPad)
    /\ chain1' = Since("push", 0)
    /\ UNCHANGED <<blocks, landingpad_alloca, status, closed, nvals, nadt>>
    /\ Config

\* (mutant) the cleanup goes to the top-most scope, whatever the index
schedule_clean_top(stack, index, cleanup) ==
    [stack EXCEPT ![Len(stack)] =
        [@ EXCEPT !.cleanups = Append(@, cleanup), !.cached_landing_pad = None]]

\* (mutant) every cached block of the scope is cleared, early exits included
schedule_clean_clearExits(stack, index, cleanup) ==
    [stack EXCEPT ![index + 1] =
        [@ EXCEPT !.cleanups = Append(@, cleanup), !.cached_landing_pad = None,
                  !.cached_early_exits = <<>>]]

\* schedule_clean(custom_scope, cleanup)
schedule_clean(stack, index, cleanup) ==
    [stack EXCEPT ![index + 1] =
        [@ EXCEPT !.cleanups = Append(@, cleanup), !.cached_landing_pad = None]]

\* schedule_drop_mem / schedule_drop_adt_contents (skip_dtor: false / true)
ScheduleDrop(op, index, needs_drop, skip_dtor) ==
    /\ status = "ok"
    /\ nvals < MaxVals
    /\ skip_dtor => nadt < MaxAdt
    /\ IF ~needs_drop
       THEN \* returns before cleanup_scope is looked at
            /\ last' = Call(op, TRUE, "no drop needed", 0, None, <<>>, LandingPad)
            /\ UNCHANGED <<scopes, status, nvals, nadt, chain1>>
       ELSE IF ~is_valid_custom_scope(scopes, index)
       THEN /\ Abort(op, "assert is_valid_custom_scope", index)
            /\ UNCHANGED <<scopes, nvals, nadt, chain1>>
       ELSE /\ scopes' = schedule_clean(scopes, index, DropValue(nvals + 1, skip_dtor))
            /\ nvals' = nvals + 1
            /\ nadt' = IF skip_dtor THEN nadt + 1 ELSE nadt
            /\ chain1' = Since("sched", index)
            /\ last' = Call(op, TRUE, "", index, None, <<>>, LandingPad)
            /\ UNCHANGED status
    /\ UNCHANGED <<blocks, landingpad_alloca, issued, closed, npush>>
    /\ Config

ScheduleDropMem ==
    \E index \in issued, needs_drop \in BOOLEAN :
        ScheduleDrop("schedule_drop_mem", index, needs_drop, FALSE)

ScheduleDropAdtContents ==
    \E index \in issued, needs_drop \in BOOLEAN :
        ScheduleDrop("schedule_drop_adt_contents", index, needs_drop, TRUE)

\* the same calls with the index of an open scope
OpenIndexes == {i \in issued : is_valid_custom_scope(scopes, i)}

ScheduleDropMemOpen ==
    \E index \in OpenIndexes, needs_drop \in BOOLEAN :
        ScheduleDrop("schedule_drop_mem", index, needs_drop, FALSE)

\* (mutant) the loop stops one short: the oldest cleanup is not emitted
NormalExitCleanups_dropOldest(scope) ==
    Take(Reverse(scope.cleanups), Len(scope.cleanups) - 1)

\* the cleanups pop_and_trans_custom_cleanup_scope emits into bcx, in order
NormalExitCleanups(scope) == Reverse(scope.cleanups)

\* pop_and_trans_custom_cleanup_scope(bcx, custom_scope)
PopAndTrans(index) ==
    /\ status = "ok"
    /\ IF ~is_valid_custom_scope(scopes, index)
       THEN /\ Abort("pop", "assert is_valid_custom_scope", index)
            /\ UNCHANGED <<scopes, closed, chain1>>
       ELSE IF index # Len(scopes) - 1
       THEN /\ Abort("pop", "assert index == len - 1", index)
            /\ UNCHANGED <<scopes, closed, chain1>>
       ELSE /\ scopes' = pop_scope(scopes)
            /\ closed' = closed \cup {index}
            /\ last' = Call("pop", TRUE, "", index, None,
                            NormalExitCleanups(top_of(scopes)), LandingPad)
            /\ chain1' = Since("pop", 0)
            /\ UNCHANGED status
    /\ UNCHANGED <<blocks, landingpad_alloca, issued, npush, nvals, nadt>>
    /\ Config

PopAndTransCustomCleanupScope == \E index \in issued : PopAndTrans(index)

\* the same call with the index of the top scope
PopAndTransTop == \E index \in {Len(scopes) - 1} \cap issued : PopAndTrans(index)

\* get_landing_pad()
GetLandingPad ==
    /\ status = "ok"
    /\ LET o == get_landing_pad(scopes, blocks, landingpad_alloca, msvc)
       IN /\ Len(o.blocks) <= MaxBlocks
          /\ scopes' = o.scopes
          /\ blocks' = o.blocks
          /\ landingpad_alloca' = o.alloca
          /\ status' = IF o.ok THEN "ok" ELSE "abort"
          /\ last' = Call("get_landing_pad", o.ok, o.why, 0, o.ret, <<>>,
                          IF msvc THEN CleanupPad(None) ELSE LandingPad)
          /\ chain1' = IF o.ok THEN Since("other", 0) ELSE chain1
    /\ UNCHANGED <<issued, closed, npush, nvals, nadt>>
    /\ Config

\* the label a function passes to the exit-chain builder
FunctionLabel == IF msvc THEN CleanupPad(None) ELSE LandingPad

\* trans_cleanups_to_exit_scope(label), called with no borrow of the stack held
TransCleanupsToExitScope ==
    /\ status = "ok"
    /\ LET label == FunctionLabel
           o == trans_cleanups_to_exit_scope(label, "none", scopes, blocks,
                                             landingpad_alloca)
       IN /\ Len(o.blocks) <= MaxBlocks
          /\ scopes' = o.scopes
          /\ blocks' = o.blocks
          /\ landingpad_alloca' = o.alloca
          /\ status' = IF o.ok THEN "ok" ELSE "abort"
          /\ last' = Call("trans_cleanups_to_exit_scope", o.ok, o.why, 0, o.ret,
                          <<>>, label)
          /\ chain1' = IF o.ok
                       THEN [valid |-> TRUE, label |-> label, ret |-> o.ret,
                             since |-> "none", idx |-> 0]
                       ELSE chain1
    /\ UNCHANGED <<issued, closed, npush, nvals, nadt>>
    /\ Config

\* the cleanup module as FunctionContext's callers use it
Next ==
    \/ PushCustomCleanupScope
    \/ ScheduleDropMem
    \/ ScheduleDropAdtContents
    \/ PopAndTransCustomCleanupScope
    \/ GetLandingPad

Spec == Init /\ [][Next]_vars

\* the exit-chain builder called on its own, on stacks built by calls that
\* name open scopes (the builder hands skip_dtor through to the drop glue
\* unread, so the stacks are built with schedule_drop_mem)
NextExit ==
    \/ PushCustomCleanupScope
    \/ ScheduleDropMemOpen
    \/ PopAndTransTop
    \/ TransCleanupsToExitScope

SpecExit == InitExit /\ [][NextExit]_vars

ScheduleDropAdtContentsOpen ==
    \E index \in OpenIndexes, needs_drop \in BOOLEAN :
        ScheduleDrop("schedule_drop_adt_contents", index, needs_drop, TRUE)

\* both scheduling calls on stacks whose scopes hold cached exits (no scope is
\* closed in these runs)
NextSchedule ==
    \/ PushCustomCleanupScope
    \/ ScheduleDropMemOpen
    \/ ScheduleDropAdtContentsOpen
    \/ TransCleanupsToExitScope

SpecSchedule == InitExit /\ [][NextSchedule]_vars


\* ------------------------------------------------- reading generated code
\* the blocks control passes through from block b on, following the
\* terminators until one has no successor among the generated blocks
RECURSIVE ChainBlocks(_, _, _)
ChainBlocks(blks, b, fuel) ==
    IF b \notin DOMAIN blks \/ fuel = 0 THEN <<>>
    ELSE <<b>> \o ChainBlocks(blks, blks[b].term.to, fuel - 1)

Chain(b) == ChainBlocks(blocks, b, Len(blocks))

\* the values dropped, in execution order, when control enters block b
RECURSIVE DropsAlong(_, _)
DropsAlong(blks, chain) ==
    IF chain = <<>> THEN <<>>
    ELSE [i \in 1..Len(blks[chain[1]].drops) |-> blks[chain[1]].drops[i].val]
         \o DropsAlong(blks, SubSeq(chain, 2, Len(chain)))

Run(b) == DropsAlong(blocks, Chain(b))

\* the last block of the chain entered at b
ChainEnd(b) == Chain(b)[Len(Chain(b))]

Vals(scope) == [i \in 1..Len(scope.cleanups) |-> scope.cleanups[i].val]
Range(f) == {f[i] : i \in DOMAIN f}

\* the values of `order` that `run` executes appear in it in reverse of `order`
InReverseOrder(order, run) ==
    \A i, j \in DOMAIN order : \A p, q \in DOMAIN run :
        (i < j /\ run[p] = order[i] /\ run[q] = order[j]) => q < p

\* the cleanups of the whole stack, top scope first, each scope newest first
RECURSIVE TopDown(_)
TopDown(stack) ==
    IF stack = <<>> THEN <<>>
    ELSE Reverse(Vals(top_of(stack))) \o TopDown(pop_scope(stack))

\* the topmost scope of `stack` holding a cached early exit for `label` (0: none)
StopIndex(stack, label) ==
    LET c == {i \in 1..Len(stack) : cached_early_exit(stack[i], label).found}
    IN IF c = {} THEN 0 ELSE MaxOf(c)

\* the scopes a chain computation on `stack` removes and replays
Replayed(stack, label) ==
    (IF StopIndex(stack, label) = 0 THEN 1 ELSE StopIndex(stack, label))..Len(stack)

ChainDone == last.op = "trans_cleanups_to_exit_scope" /\ last.ok
PadCalled == last.op = "get_landing_pad"


\* ---------------------------------------------------------------- claims
\* C1 (as claimed): a get_landing_pad call made while some open scope needs
\* unwinding action returns a block, and the chain of blocks entered at that
\* block runs every cleanup scheduled in every open scope.
C1_LandingPadRunsEveryCleanup ==
    (PadCalled /\ needs_invoke(last.pre)) =>
        /\ last.ok
        /\ \A i \in 1..Len(scopes) :
              Range(Vals(scopes[i])) \subseteq Range(Run(last.ret))

\* C2: the closing assert_eq on scopes_len never fails, and after a completed
\* get_landing_pad or trans_cleanups_to_exit_scope call the stack is as deep as
\* it was when the call was entered.
C2_DepthPreserved ==
    last.op \in {"trans_cleanups_to_exit_scope", "get_landing_pad"} =>
        /\ last.why # "assert_eq scopes_len"
        /\ last.ok => Len(scopes) = Len(last.pre)

\* a completed chain computation that removed and restored two scopes, one of
\* them without cleanups
C2_Witness ==
    /\ ChainDone
    /\ Cardinality(Replayed(last.pre, last.label)) >= 2
    /\ \E i \in Replayed(last.pre, last.label) : last.pre[i].cleanups = <<>>
    /\ \E i \in Replayed(last.pre, last.label) : last.pre[i].cleanups # <<>>
    /\ Len(scopes) = 2


\* C3: on every exit path the cleanups of one scope run in strict reverse order
\* of scheduling: the cleanups a normal close emits are the closed scope's in
\* reverse, and along the chain entered at any generated block (freshly
\* generated or reaching a cached one) a later-scheduled cleanup of a scope
\* runs before an earlier-scheduled one.
C3_ReverseOrder ==
    /\ (last.op = "pop" /\ last.ok) =>
          InReverseOrder(Vals(top_of(last.pre)),
                         [i \in 1..Len(last.emitted) |-> last.emitted[i].val])
    /\ \A b \in DOMAIN blocks : \A i \in 1..Len(scopes) :
          InReverseOrder(Vals(scopes[i]), Run(b))

\* a chain that runs two cleanups of one scope, the newer in a block this call
\* generated and the older in a block cached by an earlier call
C3_Witness ==
    /\ ChainDone
    /\ \E i \in 1..Len(scopes) : \E b1, b2 \in Range(Chain(last.ret)) :
          /\ b1 > last.nblk /\ b2 <= last.nblk
          /\ Len(scopes[i].cleanups) >= 2
          /\ scopes[i].cleanups[2] \in Range(blocks[b1].drops)
          /\ scopes[i].cleanups[1] \in Range(blocks[b2].drops)

\* a is a subsequence of b
RECURSIVE IsSubsequence(_, _)
IsSubsequence(a, b) ==
    IF a = <<>> THEN TRUE
    ELSE IF b = <<>> THEN FALSE
    ELSE IF a[1] = b[1] THEN IsSubsequence(Tail(a), Tail(b))
    ELSE IsSubsequence(a, Tail(b))

SecondOfTwoUnchanged ==
    /\ ChainDone
    /\ last.first.valid
    /\ last.first.since = "none"
    /\ UnwindKind_eq(last.first.label, last.label)

\* C6 (as claimed): the second of two consecutive chain computations on an
\* unchanged stack allocates no block.
C6_SecondAllocatesNothing ==
    SecondOfTwoUnchanged => Len(blocks) = last.nblk

\* C6 (amended): the second computation emits no cleanup again and reuses every
\* block of the first, but allocates exactly one block: a block without
\* cleanups that transfers to the block the first returned or, when no scope
\* has cleanups, a new resume block.
C6_SecondAllocatesOneEmptyBlock ==
    SecondOfTwoUnchanged =>
        /\ Len(blocks) = last.nblk + 1
        /\ last.ret = Len(blocks)
        /\ blocks[last.ret].drops = <<>>
        /\ IF \E i \in 1..Len(last.pre) : last.pre[i].cleanups # <<>>
           THEN /\ blocks[last.ret].term.to = last.first.ret
                /\ Chain(last.ret) = <<last.ret>> \o Chain(last.first.ret)
           ELSE blocks[last.ret].name = "resume"

\* a second computation on an unchanged stack of two scopes with cleanups
C6_Witness ==
    /\ SecondOfTwoUnchanged
    /\ Len(last.pre) = 2
    /\ \A i \in 1..2 : last.pre[i].cleanups # <<>>
    /\ Len(Chain(last.ret)) = 4

\* C7 (as claimed): when one cleanup was scheduled into a non-top scope between
\* two chain computations, the second generates a block for exactly that scope
\* and the scopes above it that have cleanups, so that the new cleanup is run,
\* and leaves the scopes below untouched.
C7_RegeneratesFromScheduledScope ==
    (/\ ChainDone
     /\ last.first.valid
     /\ last.first.since = "sched"
     /\ last.first.idx + 1 < Len(last.pre)) =>
        LET i0 == last.first.idx + 1
            regen == {i \in i0..Len(last.pre) : last.pre[i].cleanups # <<>>}
        IN /\ Cardinality({b \in (last.nblk + 1)..Len(blocks) :
                              blocks[b].name = "clean"}) = Cardinality(regen)
           /\ \A i \in regen :
                 cached_early_exit(scopes[i], last.label).cleanup_block > last.nblk
           /\ \A i \in 1..(i0 - 1) : scopes[i] = last.pre[i]
           /\ Range(Vals(scopes[i0])) \subseteq Range(Run(last.ret))

\* C9: a chain computation allocates one block per replayed scope that has
\* cleanups (and the resume block when it reaches the bottom of the stack); a
\* replayed scope without cleanups gets no block, is put back as it was, and the
\* block returned is the one generated for the topmost replayed scope that has
\* cleanups.
C9_EmptyScopeNoBlock ==
    ChainDone =>
        LET pre == last.pre
            k == StopIndex(pre, last.label)
            gen == {i \in Replayed(pre, last.label) : pre[i].cleanups # <<>>}
        IN /\ Len(blocks) - last.nblk = Cardinality(gen) + (IF k = 0 THEN 1 ELSE 0)
           /\ \A i \in Replayed(pre, last.label) \ gen : scopes[i] = pre[i]
           /\ \A b \in (last.nblk + 1)..Len(blocks) :
                 blocks[b].name = "clean" => blocks[b].drops # <<>> \/ k # 0
           /\ IF gen # {}
              THEN last.ret =
                     cached_early_exit(scopes[MaxOf(gen)], last.label).cleanup_block
              ELSE last.ret = last.nblk + 1 /\ k = 0

\* a chain through a scope without cleanups that lies above one with cleanups
C9_Witness ==
    /\ ChainDone
    /\ Len(last.pre) = 2
    /\ last.pre[2].cleanups = <<>>
    /\ last.pre[1].cleanups # <<>>
    /\ 2 \in Replayed(last.pre, last.label)

\* C10: a chain computation on an empty stack allocates exactly one block, the
\* resume block (no successor; under the table protocol it reloads the scratch
\* local), returns it, and leaves the stack empty.
C10_EmptyStackOneResumeBlock ==
    (ChainDone /\ last.pre = <<>>) =>
        /\ Len(blocks) = last.nblk + 1
        /\ last.ret = Len(blocks)
        /\ blocks[last.ret].name = "resume"
        /\ blocks[last.ret].drops = <<>>
        /\ blocks[last.ret].term.to = None
        /\ blocks[last.ret].term.op =
              (IF last.label.tag = "LandingPad" THEN "resume" ELSE "cleanup_ret")
        /\ last.label.tag = "LandingPad" => blocks[last.ret].load = landingpad_alloca
        /\ scopes = <<>>

\* a completed chain computation on the empty stack
C10_Witness == ChainDone /\ last.pre = <<>> /\ Len(blocks) >= 1


\* the topmost scope that needs unwinding action: the landing-pad owner
Owner(stack) == MaxOf({i \in 1..Len(stack) : CleanupScope_needs_invoke(stack[i])})

\* C5 (as claimed): the get_landing_pad call that follows the scheduling of a
\* cleanup into an open scope, the top one or not, returns a landing pad whose
\* chain runs the newly scheduled cleanup.
C5_PadRunsNewCleanup ==
    (/\ PadCalled
     /\ \E i \in 1..Len(last.pre) : nvals \in Range(Vals(last.pre[i]))) =>
        /\ last.ok
        /\ nvals \in Range(Run(last.ret))

\* C8 (as claimed): a get_landing_pad call on a stack that needs unwinding action
\* returns the block cached on the owner scope; when the owner already held a
\* cached landing pad that block is returned and no block is allocated.
C8_PadReturnedFromCache ==
    (PadCalled /\ needs_invoke(last.pre)) =>
        /\ last.ok
        /\ last.ret = scopes[Owner(last.pre)].cached_landing_pad
        /\ last.pre[Owner(last.pre)].cached_landing_pad # None =>
              /\ last.ret = last.pre[Owner(last.pre)].cached_landing_pad
              /\ Len(blocks) = last.nblk

\* C11: pop_and_trans_custom_cleanup_scope(index) completes exactly when index
\* names the top scope; it then removes that one scope and emits each of its
\* cleanups once (newest first); with any other index it aborts on an assertion
\* and the stack is as it was.
C11_PopOnlyTop ==
    last.op = "pop" =>
        /\ last.ok <=> (last.arg = Len(last.pre) - 1)
        /\ last.ok =>
              LET top == top_of(last.pre)
              IN /\ scopes = SubSeq(last.pre, 1, Len(last.pre) - 1)
                 /\ Len(last.emitted) = Len(top.cleanups)
                 /\ \A k \in 1..Len(top.cleanups) :
                       last.emitted[k] = top.cleanups[Len(top.cleanups) + 1 - k]
        /\ ~last.ok =>
              /\ scopes = last.pre
              /\ last.emitted = <<>>
              /\ last.why \in {"assert is_valid_custom_scope", "assert index == len - 1"}

\* the top of two scopes, holding two cleanups, is closed
C11_Witness ==
    /\ last.op = "pop" /\ last.ok
    /\ Len(last.pre) = 2
    /\ Len(top_of(last.pre).cleanups) = 2
    /\ Len(last.emitted) = 2

ScheduleOps == {"schedule_drop_mem", "schedule_drop_adt_contents"}

\* the last call scheduled a cleanup (the type needed drop, the index was open)
Scheduled == last.op \in ScheduleOps /\ last.ok /\ last.why = ""

C13_ClosedScopeScheduleAborts ==
    (/\ last.op \in ScheduleOps
     /\ last.why # "no drop needed"
     /\ last.arg \in closed) =>
        /\ ~last.ok
        /\ scopes = last.pre

C15_AbortKeepsDepth ==
    (/\ last.op \in {"get_landing_pad", "trans_cleanups_to_exit_scope"}
     /\ ~last.ok) =>
        Len(scopes) = Len(last.pre)

\* a is a prefix of b
IsPrefix(a, b) == Len(a) <= Len(b) /\ SubSeq(b, 1, Len(a)) = a

\* C16: after a completed get_landing_pad or trans_cleanups_to_exit_scope call
\* the stack holds the same scopes in the same bottom-to-top order as when the
\* call was entered, each with its cleanup list unchanged; a scope differs at
\* most in its cached landing pad and in cached early exits added to it.
C16_ScopesAndCleanupsKept ==
    (/\ last.op \in {"get_landing_pad", "trans_cleanups_to_exit_scope"}
     /\ last.ok) =>
        /\ Len(scopes) = Len(last.pre)
        /\ \A i \in 1..Len(last.pre) :
              /\ scopes[i].cleanups = last.pre[i].cleanups
              /\ IsPrefix(last.pre[i].cached_early_exits,
                          scopes[i].cached_early_exits)

\* a completed chain computation that removed and put back two scopes with
\* different cleanup lists
C16_Witness ==
    /\ ChainDone
    /\ Len(last.pre) = 2
    /\ Replayed(last.pre, last.label) = {1, 2}
    /\ last.pre[1].cleanups # <<>>
    /\ Len(last.pre[2].cleanups) = 2
    /\ scopes[2].cached_early_exits # last.pre[2].cached_early_exits

NoDuplicates(run) == \A p, q \in DOMAIN run : run[p] = run[q] => p = q

\* C17: along the chain entered at the block a chain computation returns, no
\* cleanup runs twice. When the walk stopped at a scope with a cached early
\* exit, the block generated for that scope runs exactly the cleanups scheduled
\* after the cached block was generated (the first last_cleanup entries are
\* skipped), and the block of every replayed scope above it runs all of that
\* scope's cleanups.
C17_NoCleanupTwice ==
    ChainDone =>
        /\ NoDuplicates(Run(last.ret))
        /\ LET k == StopIndex(last.pre, last.label)
           IN k # 0 =>
                LET kept == cached_early_exit(last.pre[k], last.label)
                    new == cached_early_exit(scopes[k], last.label)
                    n == Len(scopes[k].cleanups)
                IN /\ new.cleanup_block > last.nblk
                   /\ blocks[new.cleanup_block].drops =
                         Reverse(SubSeq(scopes[k].cleanups, kept.last_cleanup + 1, n))
                   /\ \A i \in (k + 1)..Len(scopes) :
                         scopes[i].cleanups # <<>> =>
                            blocks[cached_early_exit(scopes[i], last.label).cleanup_block].drops
                               = Reverse(scopes[i].cleanups)

\* a chain that stopped at a scope with one cleanup already covered and one
\* scheduled since, below a scope that has a cleanup
C17_Witness ==
    /\ ChainDone
    /\ Len(last.pre) = 2
    /\ StopIndex(last.pre, last.label) = 1
    /\ cached_early_exit(last.pre[1], last.label).last_cleanup = 1
    /\ Len(last.pre[1].cleanups) = 2
    /\ last.pre[2].cleanups # <<>>
    /\ Len(Run(last.ret)) = 3

\* C18: in every reachable state each cached early exit of a scope has a
\* consumed count (last_cleanup) of at least 1 and at most the length of that
\* scope's cleanup list; so when a chain computation stops at a cached exit,
\* skip <= len and the subtraction len - skip does not underflow.
C18_ConsumedCountInRange ==
    /\ \A i \in 1..Len(scopes) : \A e \in 1..Len(scopes[i].cached_early_exits) :
          /\ 1 <= scopes[i].cached_early_exits[e].last_cleanup
          /\ scopes[i].cached_early_exits[e].last_cleanup <= Len(scopes[i].cleanups)
    /\ (ChainDone /\ StopIndex(last.pre, last.label) # 0) =>
          LET k == StopIndex(last.pre, last.label)
          IN cached_early_exit(last.pre[k], last.label).last_cleanup
                <= Len(last.pre[k].cleanups)

\* a chain computation that stopped at a cached exit covering one of the two
\* cleanups of its scope
C18_Witness ==
    /\ ChainDone
    /\ StopIndex(last.pre, last.label) # 0
    /\ LET k == StopIndex(last.pre, last.label)
       IN /\ cached_early_exit(last.pre[k], last.label).last_cleanup = 1
          /\ Len(last.pre[k].cleanups) = 2
          /\ Len(scopes[k].cached_early_exits) = 2

\* the pairs (older, newer) of cached early exits of `scope` for one label
Superseded(scope) ==
    {p \in (DOMAIN scope.cached_early_exits) \X (DOMAIN scope.cached_early_exits) :
        /\ p[1] < p[2]
        /\ UnwindKind_eq(scope.cached_early_exits[p[1]].label,
                         scope.cached_early_exits[p[2]].label)}

\* C19 (as claimed): an entry recorded for a label that already has one in the
\* scope has a strictly greater consumed count than the entry it supersedes.
C19_StrictlyGreaterCount ==
    \A i \in 1..Len(scopes) : \A p \in Superseded(scopes[i]) :
        scopes[i].cached_early_exits[p[1]].last_cleanup
            < scopes[i].cached_early_exits[p[2]].last_cleanup

\* C19 (amended): an entry recorded for a label that already has one in the
\* scope names a newer block and has a consumed count at least as large as the
\* superseded entry's (equal when nothing was scheduled in between), and the
\* lookup returns the entry recorded last.
C19_NewestEntryWins ==
    \A i \in 1..Len(scopes) :
        LET ce == scopes[i].cached_early_exits
        IN /\ \A p \in Superseded(scopes[i]) :
                 /\ ce[p[1]].last_cleanup <= ce[p[2]].last_cleanup
                 /\ ce[p[1]].cleanup_block < ce[p[2]].cleanup_block
           /\ ce # <<>> =>
                 /\ cached_early_exit(scopes[i], FunctionLabel).found
                 /\ cached_early_exit(scopes[i], FunctionLabel).cleanup_block
                       = ce[Len(ce)].cleanup_block
                 /\ cached_early_exit(scopes[i], FunctionLabel).last_cleanup
                       = ce[Len(ce)].last_cleanup

\* a scope with three entries for the label: the second supersedes the first
\* with the same count, the third supersedes the second with a greater one
C19_Witness ==
    \E i \in 1..Len(scopes) :
        /\ Len(scopes[i].cached_early_exits) = 3
        /\ scopes[i].cached_early_exits[1].last_cleanup = 1
        /\ scopes[i].cached_early_exits[2].last_cleanup = 1
        /\ scopes[i].cached_early_exits[3].last_cleanup = 2

\* pad values: none, and the pads of the first blocks
Pads == 0..MaxPad

\* LandingPad, and CleanupPad of each pad value
Labels == {LandingPad} \cup {CleanupPad(p) : p \in Pads}

\* C20: unwind-label equality looks at the tag only: LandingPad equals
\* LandingPad, every CleanupPad(x) equals every
\* CleanupPad(y), LandingPad never equals a CleanupPad; the relation is
\* reflexive, symmetric and transitive; and a cached early exit stored under
\* CleanupPad(x) is found by a lookup with CleanupPad(y) for every y.
C20_EqualityByTag ==
    /\ UnwindKind_eq(LandingPad, LandingPad)
    /\ \A x, y \in Pads :
          /\ UnwindKind_eq(CleanupPad(x), CleanupPad(y))
          /\ ~UnwindKind_eq(LandingPad, CleanupPad(x))
          /\ ~UnwindKind_eq(CleanupPad(x), LandingPad)
    /\ \A a \in Labels : UnwindKind_eq(a, a)
    /\ \A a, b \in Labels : UnwindKind_eq(a, b) => UnwindKind_eq(b, a)
    /\ \A a, b, c \in Labels :
          (UnwindKind_eq(a, b) /\ UnwindKind_eq(b, c)) => UnwindKind_eq(a, c)
    /\ \A i \in 1..Len(scopes) : \A e \in 1..Len(scopes[i].cached_early_exits) :
          \A l \in Labels :
             l.tag = scopes[i].cached_early_exits[e].label.tag =>
                cached_early_exit(scopes[i], l).found
    /\ (ChainDone /\ \E i \in 1..Len(last.pre) :
                        last.pre[i].cached_early_exits # <<>>) =>
          StopIndex(last.pre, last.label) # 0

\* a chain computation asked for CleanupPad(none) that stopped at an exit
\* cached under CleanupPad(x), x the pad of the cached block
C20_Witness ==
    /\ ChainDone
    /\ last.label = CleanupPad(None)
    /\ StopIndex(last.pre, last.label) # 0
    /\ LET k == StopIndex(last.pre, last.label)
           ce == last.pre[k].cached_early_exits
       IN /\ ce[Len(ce)].label.tag = "CleanupPad"
          /\ ce[Len(ce)].label.pad # None
          /\ blocks[last.ret].term.to = ce[Len(ce)].cleanup_block

C22_BranchProtocol ==
    /\ \A b \in DOMAIN blocks :
          /\ blocks[b].name = "clean" =>
                /\ blocks[b].term.to \in 1..(b - 1)
                /\ IF msvc
                   THEN /\ blocks[b].term.op = "cleanup_ret"
                        /\ blocks[b].pad = b
                        /\ blocks[b].term.pad = b
                        /\ blocks[b].funclet = "msvc"
                   ELSE /\ blocks[b].term.op = "br"
                        /\ blocks[b].term.pad = None
                        /\ blocks[b].funclet = "gnu"
          /\ blocks[b].name = "resume" => blocks[b].term.to = None
    /\ \A i \in 1..Len(scopes) : \A e \in 1..Len(scopes[i].cached_early_exits) :
          LET c == scopes[i].cached_early_exits[e]
          IN /\ c.cleanup_block \in DOMAIN blocks
             /\ blocks[c.cleanup_block].name = "clean"
             /\ c.label = (IF msvc THEN CleanupPad(c.cleanup_block) ELSE LandingPad)
    /\ ChainDone =>
          LET k == StopIndex(last.pre, last.label)
              first == last.nblk + 1
          IN \A b \in first..Len(blocks) :
                blocks[b].name = "clean" =>
                   blocks[b].term.to =
                      (IF b = first
                       THEN cached_early_exit(last.pre[k], last.label).cleanup_block
                       ELSE b - 1)

\* under the funclet protocol, a chain computation that stopped at a cached
\* exit and generated a block for each of two scopes
C22_Witness ==
    /\ msvc
    /\ ChainDone
    /\ StopIndex(last.pre, last.label) = 1
    /\ Len(blocks) = last.nblk + 2
    /\ blocks[Len(blocks)].term = [op |-> "cleanup_ret", pad |-> Len(blocks),
                                   to |-> Len(blocks) - 1]

\* the scopes of `stack` that hold at least one scheduled cleanup
WithCleanups(stack) == {i \in 1..Len(stack) : stack[i].cleanups # <<>>}

\* C23: in every reachable state a scope that has a cached landing pad or a
\* cached early exit has a non-empty cleanup list; so needs_invoke() is true
\* exactly when some open scope has a scheduled cleanup, and the scope a
\* get_landing_pad call takes as landing-pad owner (the scope it pops down to
\* and caches the landing pad on) is the topmost scope with a non-empty list.
C23_CachesImplyCleanups ==
    /\ \A i \in 1..Len(scopes) :
          (scopes[i].cached_landing_pad # None
             \/ scopes[i].cached_early_exits # <<>>) => scopes[i].cleanups # <<>>
    /\ needs_invoke(scopes) <=> WithCleanups(scopes) # {}
    /\ PadCalled =>
          /\ needs_invoke(last.pre) <=> WithCleanups(last.pre) # {}
          /\ WithCleanups(last.pre) # {} =>
                /\ Owner(last.pre) = MaxOf(WithCleanups(last.pre))
                /\ Len(scopes) = MaxOf(WithCleanups(last.pre))
                /\ top_of(scopes).cached_landing_pad = last.nblk + 1
                /\ top_of(scopes).cleanups # <<>>

\* a get_landing_pad call on two scopes, the upper without cleanups: the lower
\* one is taken as owner and gets the landing pad
C23_Witness ==
    /\ PadCalled
    /\ Len(last.pre) = 2
    /\ last.pre[2].cleanups = <<>>
    /\ last.pre[1].cleanups # <<>>
    /\ Len(scopes) = 1
    /\ scopes[1].cached_landing_pad # None

\* C24 (as claimed): a get_landing_pad call does not touch the scope stack
\* through self.scopes while its own borrow_mut of it is alive: the nested chain
\* computation, the restoration of the popped scopes and the closing depth
\* check do not abort on a borrow conflict.
C24_NoBorrowConflict ==
    PadCalled =>
        last.why \notin {"already mutably borrowed", "already borrowed"}

====
